---------------------------- MODULE Spec2Model ----------------------------
(***************************************************************************)
(* nfhl_util (src/src/main.rs): a command-line tool with three commands.   *)
(* states_inventory and counties_inventory create the outfile, scrape a    *)
(* FEMA endpoint and serialize the inventory map as JSON; download_all has *)
(* an empty body.                                                          *)
(*                                                                         *)
(* A run of the program is one record (see InitRun).  Every operation of   *)
(* the program is a pure operator  Op(st, in)  from the run before and the *)
(* input the environment supplies to the run after, with a guard           *)
(* OpEnabled.     The variable "run" holds the run; the variable "twin"   *)
(* holds a second run of the same command, used only by SpecTwin, which    *)
(* drives both runs with the same inputs.                                  *)
(*                                                                         *)
(* Text (Rust String / &str) is a sequence of one-character strings, so    *)
(* that slicing, concatenation, the regular expression and the JSON        *)
(* escaping are computed character by character.  An Option is a sequence  *)
(* of length 0 (None) or 1 (Some).                                         *)
(***************************************************************************)
EXTENDS Integers, Sequences, FiniteSets, TLC

VARIABLES run, twin

vars == <<run, twin>>

(***************************************************************************)
(* Bounds of the model.                                                    *)
(***************************************************************************)
\* "tbody tr" rows of a fetched result page
MaxRows == 2
\* <a> elements of a fetched result page, all rows together
MaxLinks == 2

(***************************************************************************)
(* Generic helpers.                                                        *)
(***************************************************************************)
None == <<>>

Some(x) == <<x>>

Min(S) == CHOOSE x \in S : \A y \in S : x <= y

\* the text lit occurs in s at index i
IsAt(s, i, lit) ==
    /\ i >= 1
    /\ i + Len(lit) - 1 <= Len(s)
    /\ SubSeq(s, i, i + Len(lit) - 1) = lit

EmptyMap == <<>>

\* an insert that keeps the entry an existing key has (entry().or_insert())
MapInsertKeepsFirst(m, k, v) ==
    [x \in (DOMAIN m) \cup {k} |-> IF x \in DOMAIN m THEN m[x] ELSE v]

\* HashMap::insert: the entry under an existing key is replaced
MapInsert(m, k, v) ==
    [x \in (DOMAIN m) \cup {k} |-> IF x = k THEN v ELSE m[x]]

(***************************************************************************)
(* Program text constants.                                                 *)
(***************************************************************************)
\* "https://hazards.fema.gov/femaportal/NFHL/"
UrlBase ==
    <<"h","t","t","p","s",":","/","/","h","a","z","a","r","d","s",".","f","e","m","a",".",
      "g","o","v","/","f","e","m","a","p","o","r","t","a","l","/","N","F","H","L","/">>

\* "https://msc.fema.gov/portal/advanceSearch"
AdvanceSearchUrl ==
    <<"h","t","t","p","s",":","/","/","m","s","c",".","f","e","m","a",".","g","o","v","/",
      "p","o","r","t","a","l","/","a","d","v","a","n","c","e","S","e","a","r","c","h">>

\* "https://hazards.fema.gov/femaportal/NFHL/searchResult"
SearchResultUrl ==
    <<"h","t","t","p","s",":","/","/","h","a","z","a","r","d","s",".","f","e","m","a",".",
      "g","o","v","/","f","e","m","a","p","o","r","t","a","l","/","N","F","H","L","/","s",
      "e","a","r","c","h","R","e","s","u","l","t">>

\* the literal prefix "fileName=" of the pattern
FileNameEq == <<"f","i","l","e","N","a","m","e","=">>

\* the literal suffix "zip" of the pattern
Zip == <<"z","i","p">>

\* the state-to-representative-county table: ("AL", "01101"), ("AR", "05029")
state_to_representative_county ==
    [AL |-> <<"0","1","1","0","1">>, AR |-> <<"0","5","0","2","9">>]

(***************************************************************************)
(* The regular expression  fileName=(.+?)[cC]_(.+?).zip  (line 272).       *)
(* "." is any character but a line feed; the final "." before zip is not   *)
(* escaped and so is any such character too.  A match attempt at index i   *)
(* reads "fileName=", then group 1 = s[i+9 .. q-1] (one character or more),*)
(* the marker [cC]_ at q, group 2 = s[q+2 .. t-1] (one character or more), *)
(* any character at t and "zip" at t+1.                                    *)
(***************************************************************************)
Dot(c) == c # "\n"

AllDot(s, from, to) == \A j \in from..to : Dot(s[j])

MarkerAt(s, q) ==
    /\ q + 1 <= Len(s)
    /\ s[q] \in {"c", "C"}
    /\ s[q + 1] = "_"

\* the ends t of group 2 with which the rest of the pattern matches after a
\* marker at q
Group2Ends(s, q) ==
    {t \in (q + 3)..Len(s) : AllDot(s, q + 2, t) /\ IsAt(s, t + 1, Zip)}

\* the marker positions q with which the pattern matches from index i
Group1Ends(s, i) ==
    {q \in (i + Len(FileNameEq) + 1)..Len(s) :
        /\ AllDot(s, i + Len(FileNameEq), q - 1)
        /\ MarkerAt(s, q)
        /\ Group2Ends(s, q) # {}}

\* the indexes from which the pattern matches
MatchStarts(s) ==
    {i \in 1..Len(s) : IsAt(s, i, FileNameEq) /\ Group1Ends(s, i) # {}}

\* Regex::captures: the leftmost match, each lazy group as short as a match
\* allows, the first group deciding before the second
Captures(s) ==
    IF MatchStarts(s) = {} THEN None
    ELSE LET i == Min(MatchStarts(s))
             q == Min(Group1Ends(s, i))
             t == Min(Group2Ends(s, q))
         IN  Some([g1 |-> SubSeq(s, i + Len(FileNameEq), q - 1),
                   g2 |-> SubSeq(s, q + 2, t - 1)])


(***************************************************************************)
(* serde_json::to_writer of HashMap<String, InventoryEntry> (lines 77, 87, *)
(* 94-100): a compact JSON object, the map's entries in the HashMap's      *)
(* iteration order, each entry an object of its four fields in declaration *)
(* order.                                                                  *)
(***************************************************************************)
\* "effective_file_url"
KeyEffectiveFileUrl ==
    <<"e","f","f","e","c","t","i","v","e","_","f","i","l","e","_","u","r","l">>

\* "effective_file_date"
KeyEffectiveFileDate ==
    <<"e","f","f","e","c","t","i","v","e","_","f","i","l","e","_","d","a","t","e">>

\* "preliminary_file_url"
KeyPreliminaryFileUrl ==
    <<"p","r","e","l","i","m","i","n","a","r","y","_","f","i","l","e","_","u","r","l">>

\* "preliminary_file_date"
KeyPreliminaryFileDate ==
    <<"p","r","e","l","i","m","i","n","a","r","y","_","f","i","l","e","_","d","a","t","e">>

\* serde_json's string escaping, for the characters the model's texts hold:
\* the quote, the backslash and the line feed are escaped, the rest is
\* written as it is
Escape(c) ==
    CASE c = "\"" -> <<"\\", "\"">>
      [] c = "\\" -> <<"\\", "\\">>
      [] c = "\n" -> <<"\\", "n">>
      [] OTHER -> <<c>>

RECURSIVE EscapeAll(_)
EscapeAll(s) == IF s = <<>> THEN <<>> ELSE Escape(Head(s)) \o EscapeAll(Tail(s))

JsonString(s) == <<"\"">> \o EscapeAll(s) \o <<"\"">>

JsonField(name, value) == JsonString(name) \o <<":">> \o value

EntryJson(e) ==
    <<"{">>
    \o JsonField(KeyEffectiveFileUrl, JsonString(e.effective_file_url)) \o <<",">>
    \o JsonField(KeyEffectiveFileDate, JsonString(e.effective_file_date)) \o <<",">>
    \o JsonField(KeyPreliminaryFileUrl, JsonString(e.preliminary_file_url)) \o <<",">>
    \o JsonField(KeyPreliminaryFileDate, JsonString(e.preliminary_file_date))
    \o <<"}">>

RECURSIVE JsonMembers(_, _)
JsonMembers(inv, order) ==
    IF order = <<>> THEN <<>>
    ELSE JsonField(Head(order), EntryJson(inv[Head(order)]))
         \o (IF Tail(order) = <<>> THEN <<>> ELSE <<",">>)
         \o JsonMembers(inv, Tail(order))

\* order: the keys of inv in the order the HashMap yields them
ToJson(inv, order) == <<"{">> \o JsonMembers(inv, order) \o <<"}">>

\* the orders in which a HashMap may yield its keys
RECURSIVE Orders(_)
Orders(keys) ==
    IF keys = {} THEN {<<>>}
    ELSE UNION {{<<k>> \o o : o \in Orders(keys \ {k})} : k \in keys}

(***************************************************************************)
(* The inputs of a run: the command line, the file system before the run,  *)
(* and the pages the server may return.                                    *)
(***************************************************************************)
InventoryCommands == {"states_inventory", "counties_inventory"}

Commands == InventoryCommands \cup {"download_all"}

\* --politeness is a u8 defaulting to u8::MAX
PolitenessValues == {1, 255}

\* a file stored at the outfile's path by an earlier run: {"old":0}
OldInventory == <<"{","\"","o","l","d","\"",":","0","}">>

\* the file system before the run: whether the outfile's parent directory
\* exists, the outfile's content (None: no such file), the cache directory
FsInit ==
    {[dir |-> FALSE, outfile |-> None, cache |-> {"48201C.zip"}],
     [dir |-> TRUE, outfile |-> None, cache |-> {"48201C.zip"}],
     [dir |-> TRUE, outfile |-> Some(OldInventory), cache |-> {"48201C.zip"}]}

\* "fileName=01001C_20210804.zip"
HrefAutauga ==
    <<"f","i","l","e","N","a","m","e","=","0","1","0","0","1","C","_","2","0","2","1","0",
      "8","0","4",".","z","i","p">>

\* "fileName=01001c_20190102.zip": the same county, another date
HrefAutaugaOlder ==
    <<"f","i","l","e","N","a","m","e","=","0","1","0","0","1","c","_","2","0","1","9","0",
      "1","0","2",".","z","i","p">>

\* "fileName=NFHL_01_20230101.zip": no c_ or C_, the pattern does not match
HrefStatewide ==
    <<"f","i","l","e","N","a","m","e","=","N","F","H","L","_","0","1","_","2","0","2","3",
      "0","1","0","1",".","z","i","p">>

\* "fileName=c_C_1.zip": a marker right after "fileName="
HrefMarkerFirst ==
    <<"f","i","l","e","N","a","m","e","=","c","_","C","_","1",".","z","i","p">>

\* "fileName=" LF "fileName=48C_7.zip": a line feed after the first "fileName="
HrefTwoLines ==
    <<"f","i","l","e","N","a","m","e","=","\n","f","i","l","e","N","a","m","e","=","4","8",
      "C","_","7",".","z","i","p">>

Hrefs ==
    {HrefAutauga, HrefAutaugaOlder, HrefStatewide, HrefMarkerFirst, HrefTwoLines}

\* an <a> element is its href attribute: None when it has none
Links == {None} \cup {Some(h) : h \in Hrefs}

\* the rows of at most k links; a row is its <a> descendants in document order
RECURSIVE RowsUpTo(_)
RowsUpTo(k) ==
    IF k = 0 THEN {<<>>}
    ELSE {<<>>} \cup {<<a>> \o row : a \in Links, row \in RowsUpTo(k - 1)}

\* the pages of at most r rows and k links; a page is its "tbody tr" elements
\* in document order
RECURSIVE PagesUpTo(_, _)
PagesUpTo(r, k) ==
    IF r = 0 THEN {<<>>}
    ELSE {<<>>} \cup
         UNION {{<<row>> \o page : page \in PagesUpTo(r - 1, k - Len(row))} :
                    row \in RowsUpTo(k)}

Pages == PagesUpTo(MaxRows, MaxLinks)

\* a SearchResults value the per-state POST may decode to: without and with
\* an NFHL_STATE_DATA product
SearchResultsValues ==
    {[effective |-> [county |-> None, state |-> None], preliminary |-> None],
     [effective |-> [county |-> None,
                     state |-> Some(<<[name |-> "NFHL_STATE_DATA",
                                       filename |-> Some("NFHL_01_20230101.zip")]>>)],
      preliminary |-> None]}

(***************************************************************************)
(* The run after Cli::parse (line 66).                                     *)
(*   has_parent whether outfile.parent() is Some (inventory commands)      *)
(*   delete, old_inventory   download_all's --delete, --old-inventory given*)
(*   pc         where the run is: "start", "create", "client", "session",  *)
(*              "loop", "get", "text", "rows", "write", "done"             *)
(*   exit       "running"; "ok": main returned Ok(()); "err": main         *)
(*              returned an Err; "panic": the process panicked             *)
(*   fs         the file system                                            *)
(*   requests   the HTTP requests sent, in order                           *)
(*   responses  what became of each request: "send_error", "received",     *)
(*              "decode_error", "decoded"                                  *)
(*   stderr     the values dbg! printed                                    *)
(*   inv        the scraper's inventory map                                *)
(*   todo       the table entries the state scraper's loop has yet to visit*)
(*   page, tr   the parsed page's rows and the index of the next row       *)
(***************************************************************************)
InitRun(command, politeness, has_parent, delete, old_inventory, fs) ==
    [command |-> command, politeness |-> politeness, has_parent |-> has_parent,
     delete |-> delete, old_inventory |-> old_inventory,
     pc |-> "start", exit |-> "running", fs |-> fs,
     requests |-> <<>>, responses |-> <<>>, stderr |-> <<>>,
     inv |-> EmptyMap, todo |-> DOMAIN state_to_representative_county,
     page |-> <<>>, tr |-> 1]

\* an --outfile without a parent (the empty path, a root) names no file
InitRuns ==
    {InitRun(c, p, TRUE, FALSE, FALSE, fs) :
        c \in InventoryCommands, p \in PolitenessValues, fs \in FsInit}
    \cup {InitRun(c, p, FALSE, FALSE, FALSE, fs) :
        c \in InventoryCommands, p \in PolitenessValues,
        fs \in {x \in FsInit : x.outfile = None}}
    \cup {InitRun("download_all", p, FALSE, d, o, fs) :
        p \in PolitenessValues, d \in BOOLEAN, o \in BOOLEAN, fs \in FsInit}

(***************************************************************************)
(* How a run ends early.                                                   *)
(***************************************************************************)
\* main's "?": main returns the Err, the process exits with a failure code
MainErr(st) == [st EXCEPT !.pc = "done", !.exit = "err"]

\* a panic: the process ends there
Panic(st) == [st EXCEPT !.pc = "done", !.exit = "panic"]

\* main going on with the inventory it has (unwrap_or_default())
UnwrapOrDefault(st) == [st EXCEPT !.pc = "write"]

\* a scraper's "?" returns the Err to main, whose .unwrap() panics
UnwrapErr(st) == Panic(st)

(***************************************************************************)
(* main, the States and Counties arms (lines 69-88).                       *)
(***************************************************************************)
\* without a parent no call is made, and none can fail
CreateDirAllEnabled(st, ok) ==
    /\ st.pc = "start"
    /\ st.command \in InventoryCommands
    /\ ~st.has_parent => ok

\* if let Some(outfile_dir) = outfile.parent() { create_dir_all(outfile_dir)? }
CreateDirAll(st, ok) ==
    IF ~st.has_parent THEN [st EXCEPT !.pc = "create"]
    ELSE IF ok THEN [st EXCEPT !.fs.dir = TRUE, !.pc = "create"]
    ELSE MainErr(st)

\* a file cannot be created in a directory that does not exist, nor at a
\* path that has no parent
FileCreateEnabled(st, ok) ==
    st.pc = "create" /\ (ok => st.fs.dir /\ st.has_parent)

\* a file opened for writing without truncation
FileCreateKeepsContent(st, ok) ==
    IF ok
    THEN [st EXCEPT !.fs.outfile = IF @ = None THEN Some(<<>>) ELSE @, !.pc = "client"]
    ELSE MainErr(st)

\* let f = File::create(outfile)?: the file is created, or truncated if it exists
FileCreate(st, ok) ==
    IF ok THEN [st EXCEPT !.fs.outfile = Some(<<>>), !.pc = "client"]
    ELSE MainErr(st)

\* the bytes a failed write may leave in the file: any proper prefix of the
\* text; the model takes the longest
WriteCuts(text) == {Len(text) - 1}

ToWriterEnabled(st, in) ==
    /\ st.pc = "write"
    /\ in.order \in Orders(DOMAIN st.inv)
    /\ ~in.ok => in.written \in WriteCuts(ToJson(st.inv, in.order))

\* serde_json::to_writer(f, &inv)?; Ok(())
ToWriter(st, in) ==
    LET text == ToJson(st.inv, in.order)
    IN  IF in.ok
        THEN [st EXCEPT !.fs.outfile = Some(text), !.pc = "done", !.exit = "ok"]
        ELSE [MainErr(st) EXCEPT !.fs.outfile = Some(SubSeq(text, 1, in.written))]

(***************************************************************************)
(* main, the DownloadAll arm (line 89).                                    *)
(***************************************************************************)
DownloadAllEnabled(st) ==
    st.pc = "start" /\ st.command = "download_all"

\* a download_all that prunes the cache when --delete is given
DownloadAllPrunes(st) ==
    [st EXCEPT !.pc = "done", !.exit = "ok",
               !.fs.cache = IF st.delete THEN {} ELSE @]

\* Commands::DownloadAll { .. } => {} and then Ok(())
DownloadAll(st) == [st EXCEPT !.pc = "done", !.exit = "ok"]

(***************************************************************************)
(* Both scrapers build their client first (lines 218, 256).                *)
(***************************************************************************)
ClientBuildEnabled(st, ok) == st.pc = "client"

\* reqwest::blocking::Client::builder().cookie_store(true).build()?
ClientBuild(st, ok) ==
    IF ok
    THEN [st EXCEPT !.pc = IF st.command = "states_inventory" THEN "session" ELSE "get"]
    ELSE UnwrapErr(st)

\* a request held back for a time that grows with the politeness
PoliteSend(st, request, fate) ==
    [st EXCEPT !.requests = Append(@, [method |-> request.method, url |-> request.url,
                                       form |-> request.form,
                                       delay |-> st.politeness]),
               !.responses = Append(@, fate)]

\* a request is sent and its fate recorded
Send(st, request, fate) ==
    [st EXCEPT !.requests = Append(@, request), !.responses = Append(@, fate)]

(***************************************************************************)
(* get_effective_state_products (lines 138-252).                           *)
(***************************************************************************)
SessionGetEnabled(st, ok) == st.pc = "session"

\* let a = client.get("https://msc.fema.gov/portal/advanceSearch").send()?
SessionGet(st, ok) ==
    LET request == [method |-> "GET", url |-> AdvanceSearchUrl, form |-> None]
    IN  IF ok THEN [Send(st, request, "received") EXCEPT !.pc = "loop"]
        ELSE UnwrapErr(Send(st, request, "send_error"))

\* the form fields of the POST that vary with the table entry
SearchForm(representative_county) ==
    [selstate |-> SubSeq(representative_county, 1, 2),
     selcounty |-> representative_county,
     selcommunity |-> representative_county \o <<"C">>,
     searchedCid |-> representative_county \o <<"C">>,
     method |-> "search"]

\* the HashMap's iterator yields any entry it has not yielded yet
StatePostEnabled(st, in) ==
    st.pc = "loop" /\ in.state \in st.todo

\* an iteration that stores the state product it received under the state code
StatePostIntegrates(st, in) ==
    LET representative_county == state_to_representative_county[in.state]
        request == [method |-> "POST", url |-> AdvanceSearchUrl,
                    form |-> Some(SearchForm(representative_county))]
    IN  IF in.fate = "decoded"
        THEN [Send(st, request, "decoded") EXCEPT
                  !.stderr = Append(@, in.b), !.todo = @ \ {in.state},
                  !.inv = IF in.b.effective.state = None THEN @
                          ELSE MapInsert(@, SubSeq(representative_county, 1, 2),
                                         [effective_file_url |-> UrlBase,
                                          effective_file_date |-> <<>>,
                                          preliminary_file_url |-> <<>>,
                                          preliminary_file_date |-> <<>>])]
        ELSE UnwrapErr(Send(st, request, in.fate))

\* an iteration that skips a response it cannot decode and goes on
StatePostLenient(st, in) ==
    LET request == [method |-> "POST", url |-> AdvanceSearchUrl,
                    form |-> Some(SearchForm(state_to_representative_county[in.state]))]
    IN  IF in.fate = "decoded"
        THEN [Send(st, request, "decoded") EXCEPT
                  !.stderr = Append(@, in.b), !.todo = @ \ {in.state}]
        ELSE IF in.fate = "decode_error"
        THEN [Send(st, request, "decode_error") EXCEPT !.todo = @ \ {in.state}]
        ELSE UnwrapErr(Send(st, request, in.fate))

\* one iteration of the loop: client.post(..).form(..).send()?.json()?; dbg!(&b)
StatePost(st, in) ==
    LET request == [method |-> "POST", url |-> AdvanceSearchUrl,
                    form |-> Some(SearchForm(state_to_representative_county[in.state]))]
    IN  IF in.fate = "decoded"
        THEN [Send(st, request, "decoded") EXCEPT
                  !.stderr = Append(@, in.b), !.todo = @ \ {in.state}]
        ELSE UnwrapErr(Send(st, request, in.fate))

StateReturnEnabled(st) == st.pc = "loop" /\ st.todo = {}

\* Ok(inv), bound by main's let inv = ...unwrap()
StateReturn(st) == [st EXCEPT !.pc = "write"]

(***************************************************************************)
(* get_effective_county_products (lines 255-290).                          *)
(***************************************************************************)
PageGetEnabled(st, ok) == st.pc = "get"

\* client.get("https://hazards.fema.gov/femaportal/NFHL/searchResult").send()?
PageGet(st, ok) ==
    LET request == [method |-> "GET", url |-> SearchResultUrl, form |-> None]
    IN  IF ok THEN [Send(st, request, "received") EXCEPT !.pc = "text"]
        ELSE UnwrapErr(Send(st, request, "send_error"))

ResponseTextEnabled(st, body) == st.pc = "text"

\* response.text()? and Html::parse_document; body is None when the body
\* cannot be decoded, else the rows "tbody tr" selects in the parsed document
ResponseText(st, body) ==
    IF body = None
    THEN UnwrapErr([st EXCEPT !.responses[Len(st.responses)] = "decode_error"])
    ELSE [st EXCEPT !.responses[Len(st.responses)] = "decoded",
                    !.page = body[1], !.tr = 1, !.pc = "rows"]

\* the row's last <a> instead of its first
LastLink(tr) == IF tr = <<>> THEN None ELSE Some(tr[Len(tr)])

\* tr.select(&a_selector).next(): the row's first <a>, if it has one
FirstLink(tr) == IF tr = <<>> THEN None ELSE Some(Head(tr))

\* the entry inserted for a matching href
NewEntry(file_url, date) ==
    [effective_file_url |-> UrlBase \o file_url,
     effective_file_date |-> date,
     preliminary_file_url |-> <<>>,
     preliminary_file_date |-> <<>>]

CountyRowEnabled(st) == st.pc = "rows" /\ st.tr <= Len(st.page)

\* one iteration of the loop over the rows (lines 274-288)
CountyRow(st) ==
    LET a == FirstLink(st.page[st.tr])
        next == [st EXCEPT !.tr = @ + 1]
    IN  IF a = None THEN next
        ELSE LET href == a[1]
             IN  IF href = None THEN Panic(st)
                 ELSE LET file_url == href[1]
                          caps == Captures(file_url)
                      IN  IF caps = None THEN next
                          ELSE [next EXCEPT !.inv =
                                    MapInsert(@, caps[1].g1,
                                              NewEntry(file_url, caps[1].g2))]

CountyReturnEnabled(st) == st.pc = "rows" /\ st.tr > Len(st.page)

\* Ok(inv), bound by main's let inv = ...unwrap()
CountyReturn(st) == [st EXCEPT !.pc = "write"]

(***************************************************************************)
(* The actions.  An operation steps the run; when there is a twin run, the *)
(* same operation with the same input steps it too.                        *)
(***************************************************************************)
DoCreateDirAll ==
    \E ok \in BOOLEAN :
        /\ CreateDirAllEnabled(run, ok)
        /\ run' = CreateDirAll(run, ok)
        /\ twin' = IF twin # None /\ CreateDirAllEnabled(twin[1], ok)
                   THEN Some(CreateDirAll(twin[1], ok)) ELSE twin

DoFileCreate ==
    \E ok \in BOOLEAN :
        /\ FileCreateEnabled(run, ok)
        /\ run' = FileCreate(run, ok)
        /\ twin' = IF twin # None /\ FileCreateEnabled(twin[1], ok)
                   THEN Some(FileCreate(twin[1], ok)) ELSE twin

DoDownloadAll ==
    /\ DownloadAllEnabled(run)
    /\ run' = DownloadAll(run)
    /\ twin' = IF twin # None /\ DownloadAllEnabled(twin[1])
               THEN Some(DownloadAll(twin[1])) ELSE twin

DoClientBuild ==
    \E ok \in BOOLEAN :
        /\ ClientBuildEnabled(run, ok)
        /\ run' = ClientBuild(run, ok)
        /\ twin' = IF twin # None /\ ClientBuildEnabled(twin[1], ok)
                   THEN Some(ClientBuild(twin[1], ok)) ELSE twin

DoSessionGet ==
    \E ok \in BOOLEAN :
        /\ SessionGetEnabled(run, ok)
        /\ run' = SessionGet(run, ok)
        /\ twin' = IF twin # None /\ SessionGetEnabled(twin[1], ok)
                   THEN Some(SessionGet(twin[1], ok)) ELSE twin

\* what the server and the HashMap's iterator may do to one iteration
StatePostInputs ==
    {[state |-> state, fate |-> fate, b |-> None] :
        state \in DOMAIN state_to_representative_county,
        fate \in {"send_error", "decode_error"}}
    \cup {[state |-> state, fate |-> "decoded", b |-> b] :
        state \in DOMAIN state_to_representative_county, b \in SearchResultsValues}

DoStatePost ==
    \E in \in StatePostInputs :
        /\ StatePostEnabled(run, in)
        /\ run' = StatePost(run, in)
        /\ twin' = IF twin # None /\ StatePostEnabled(twin[1], in)
                   THEN Some(StatePost(twin[1], in)) ELSE twin

DoStateReturn ==
    /\ StateReturnEnabled(run)
    /\ run' = StateReturn(run)
    /\ twin' = IF twin # None /\ StateReturnEnabled(twin[1])
               THEN Some(StateReturn(twin[1])) ELSE twin

DoPageGet ==
    \E ok \in BOOLEAN :
        /\ PageGetEnabled(run, ok)
        /\ run' = PageGet(run, ok)
        /\ twin' = IF twin # None /\ PageGetEnabled(twin[1], ok)
                   THEN Some(PageGet(twin[1], ok)) ELSE twin

DoResponseText ==
    \E body \in {None} \cup {Some(page) : page \in Pages} :
        /\ ResponseTextEnabled(run, body)
        /\ run' = ResponseText(run, body)
        /\ twin' = IF twin # None /\ ResponseTextEnabled(twin[1], body)
                   THEN Some(ResponseText(twin[1], body)) ELSE twin

DoCountyRow ==
    /\ CountyRowEnabled(run)
    /\ run' = CountyRow(run)
    /\ twin' = IF twin # None /\ CountyRowEnabled(twin[1])
               THEN Some(CountyRow(twin[1])) ELSE twin

DoCountyReturn ==
    /\ CountyReturnEnabled(run)
    /\ run' = CountyReturn(run)
    /\ twin' = IF twin # None /\ CountyReturnEnabled(twin[1])
               THEN Some(CountyReturn(twin[1])) ELSE twin

\* the HashMap's iteration order and, for a failed write, the bytes written
ToWriterInputs(st) ==
    IF st.pc # "write" THEN {}
    ELSE UNION {{[ok |-> TRUE, order |-> order, written |-> 0]}
                \cup {[ok |-> FALSE, order |-> order, written |-> n] :
                          n \in WriteCuts(ToJson(st.inv, order))} :
                    order \in Orders(DOMAIN st.inv)}

DoToWriter ==
    \E in \in ToWriterInputs(run) :
        /\ ToWriterEnabled(run, in)
        /\ run' = ToWriter(run, in)
        /\ twin' = IF twin # None /\ ToWriterEnabled(twin[1], in)
                   THEN Some(ToWriter(twin[1], in)) ELSE twin

Next ==
    \/ DoCreateDirAll
    \/ DoFileCreate
    \/ DoDownloadAll
    \/ DoClientBuild
    \/ DoSessionGet
    \/ DoStatePost
    \/ DoStateReturn
    \/ DoPageGet
    \/ DoResponseText
    \/ DoCountyRow
    \/ DoCountyReturn
    \/ DoToWriter

\* one run of the program
Init == run \in InitRuns /\ twin = None

Spec == Init /\ [][Next]_vars

\* two runs of the same command line but for the politeness, on the same file
\* system, given the same inputs at every step
InitTwin ==
    /\ run \in InitRuns
    /\ \E p \in PolitenessValues \ {run.politeness} :
           twin = Some([run EXCEPT !.politeness = p])

SpecTwin == InitTwin /\ [][Next]_vars

(***************************************************************************)
(* What the claims speak of.                                               *)
(***************************************************************************)
Failures == {"send_error", "decode_error"}

Max(S) == CHOOSE x \in S : \A y \in S : y <= x

\* the href of a row's first link: None when the row has no link or its
\* first link has no href
FirstHref(row) == IF row = <<>> THEN None ELSE Head(row)

\* the rows of a page whose first link's href matches the pattern
MatchingRows(page) ==
    {i \in 1..Len(page) :
        FirstHref(page[i]) # None /\ MatchStarts(FirstHref(page[i])[1]) # {}}

\* the first c_ or C_ of h at or after index p
FirstMarker(h, p) == Min({q \in p..Len(h) : MarkerAt(h, q)})

\* the text between the "fileName=" the match begins at and the first c_ or
\* C_ that lies gap characters or more after it
TextToMarker(h, gap) ==
    LET p == Min(MatchStarts(h)) + Len(FileNameEq)
    IN  SubSeq(h, p, FirstMarker(h, p + gap) - 1)

\* the text after the marker group 1 ends at, as short as it can be with one
\* more character and "zip" after it
DateAfterMarker(h) ==
    LET q == FirstMarker(h, Min(MatchStarts(h)) + Len(FileNameEq) + 1)
    IN  SubSeq(h, q + 2, Min({t \in (q + 3)..Len(h) : IsAt(h, t + 1, Zip)}) - 1)

\* the inventory a page should yield when TextToMarker(h, gap) is the county
\* code of a matching href h: the keys of the matching rows, each with the
\* entry of the last row that yields it
IsInventoryOf(inv, page, gap) ==
    /\ DOMAIN inv = {TextToMarker(FirstHref(page[i])[1], gap) : i \in MatchingRows(page)}
    /\ \A k \in DOMAIN inv :
           LET last == Max({i \in MatchingRows(page) :
                               TextToMarker(FirstHref(page[i])[1], gap) = k})
               h == FirstHref(page[last])[1]
           IN  inv[k] = [effective_file_url |-> UrlBase \o h,
                         effective_file_date |-> DateAfterMarker(h),
                         preliminary_file_url |-> <<>>,
                         preliminary_file_date |-> <<>>]

\* get_effective_county_products has returned Ok(inv)
CountyScraperSucceeded ==
    run.command = "counties_inventory" /\ (run.pc = "write" \/ run.exit = "ok")

(* C1 as stated: when the county scraper succeeds, the inventory has exactly
   the keys extracted, as the text between "fileName=" and the first c_ or
   C_, from the rows whose first link's href matches the pattern; each entry
   holds the base URL followed by the href, the captured date and empty
   preliminary fields, and is that of the last row yielding its key.  The
   "fileName=" is read as the one the pattern's match begins at. *)
C1_KeysUpToFirstMarker ==
    CountyScraperSucceeded => IsInventoryOf(run.inv, run.page, 0)

(* C1 amended: the same, the key being the text between the "fileName=" at
   which the pattern's match begins and the first c_ or C_ that lies at least
   one character after that "fileName=". *)
C1_CountyInventory ==
    CountyScraperSucceeded => IsInventoryOf(run.inv, run.page, 1)

\* two rows yield the same county code and the second row's entry is kept
C1_Witness ==
    /\ CountyScraperSucceeded
    /\ run.page = << <<Some(HrefAutauga)>>, <<Some(HrefAutaugaOlder)>> >>
    /\ DOMAIN run.inv = {<<"0","1","0","0","1">>}
    /\ run.inv[<<"0","1","0","0","1">>].effective_file_date
           = <<"2","0","1","9","0","1","0","2">>

Digits == {"0", "1", "2", "3", "4", "5", "6", "7", "8", "9"}

(* C2: every key of the inventory the county scraper builds is a 5-digit
   county FIPS code, whatever the page holds. *)
C2_KeysAreFiveDigits ==
    run.command = "counties_inventory" =>
        \A k \in DOMAIN run.inv : Len(k) = 5 /\ \A i \in 1..5 : k[i] \in Digits

\* the 2-digit FIPS codes of the states of the table
StateCodes ==
    {SubSeq(state_to_representative_county[s], 1, 2) :
        s \in DOMAIN state_to_representative_county}

(* C3: when states_inventory completes successfully, the inventory written to
   the outfile has one entry per state, keyed by the state's 2-digit FIPS
   code and holding the state's effective file URL. *)
C3_StatesInventoryListsStates ==
    (run.command = "states_inventory" /\ run.exit = "ok") =>
        /\ DOMAIN run.inv = StateCodes
        /\ \A k \in DOMAIN run.inv : run.inv[k].effective_file_url # <<>>
        /\ \E order \in Orders(StateCodes) :
               run.fs.outfile = Some(ToJson(run.inv, order))

(* C4: in states_inventory and counties_inventory, once a request fails to
   be sent or its response body fails to decode, the run has ended there: the
   failed request is the last one sent, the outfile holds no JSON (it is
   empty), and the process has panicked instead of returning. *)
C4_FailureAborts ==
    \A i \in 1..Len(run.responses) :
        run.responses[i] \in Failures =>
            /\ i = Len(run.requests)
            /\ run.pc = "done"
            /\ run.exit = "panic"
            /\ run.fs.outfile = Some(<<>>)

\* the second per-state POST's response failed to decode
C4_Witness ==
    /\ run.command = "states_inventory"
    /\ Len(run.requests) = 3
    /\ run.responses = <<"received", "decoded", "decode_error">>

(* C5: download_all is a no-op whatever its arguments: no step of it changes
   the file system (the outfile, its directory, the cache directory), it
   sends no request and prints nothing, and it ends returning success. *)
C5_DownloadAllNoOp ==
    /\ [](run.command = "download_all" =>
              /\ run.requests = <<>>
              /\ run.stderr = <<>>
              /\ run.inv = EmptyMap
              /\ run.pc \in {"start", "done"}
              /\ (run.pc = "done" => run.exit = "ok"))
    /\ [][run.command = "download_all" => run'.fs = run.fs]_vars

\* download_all has returned, --delete and --old-inventory given, a file in
\* the cache directory
C5_Witness ==
    /\ run.command = "download_all"
    /\ run.pc = "done"
    /\ run.delete /\ run.old_inventory
    /\ run.fs.cache # {}

\* what a run shows: its place, its requests and their fates, its output, the
\* file system, its exit
Observable(st) ==
    [pc |-> st.pc, requests |-> st.requests, responses |-> st.responses,
     stderr |-> st.stderr, fs |-> st.fs, exit |-> st.exit]

(* C6: the politeness has no effect: two runs of the same command that differ
   only in the politeness and are given the same inputs (server responses, file
   system outcomes, HashMap iteration orders) send the same requests, are at
   the same place after the same number of steps, write the same file and
   end the same way. *)
C6_PolitenessIgnored ==
    twin # None => Observable(run) = Observable(twin[1])

\* two runs with different politeness have both scraped and written
C6_Witness ==
    /\ twin # None
    /\ run.politeness # twin[1].politeness
    /\ run.command = "states_inventory"
    /\ Len(run.requests) = 3
    /\ run.exit = "ok"

\* the representative counties the POSTs sent so far searched for
PostedCounties ==
    {run.requests[i].form[1].selcounty : i \in 2..Len(run.requests)}

TableCounties ==
    {state_to_representative_county[s] : s \in DOMAIN state_to_representative_county}

(* C7: in the state scraper the first request is the session GET to
   advanceSearch and it is the only GET; a POST is sent only after the GET
   was answered; the POSTs are for distinct entries of the table, each sent
   only after the one before it was received and decoded; when the scraper
   returns, exactly one POST per entry has been sent. *)
C7_SessionThenPosts ==
    run.command = "states_inventory" =>
        LET n == Len(run.requests)
        IN  /\ (run.pc \in {"loop", "write"} \/ run.exit = "ok") => n >= 1
            /\ n >= 1 => run.requests[1] =
                   [method |-> "GET", url |-> AdvanceSearchUrl, form |-> None]
            /\ n >= 2 => run.responses[1] = "received"
            /\ \A i \in 2..n :
                   /\ run.requests[i].method = "POST"
                   /\ run.requests[i].url = AdvanceSearchUrl
                   /\ run.requests[i].form[1].selcounty \in TableCounties
                   /\ \A j \in 2..n :
                          i # j => run.requests[i].form # run.requests[j].form
            /\ \A i \in 2..(n - 1) : run.responses[i] = "decoded"
            /\ Len(run.stderr) = Cardinality({i \in 2..n : run.responses[i] = "decoded"})
            /\ (run.pc = "write" \/ run.exit = "ok") =>
                   /\ PostedCounties = TableCounties
                   /\ n = 1 + Cardinality(TableCounties)

\* the scraper has returned after the GET and one POST per entry
C7_Witness ==
    /\ run.command = "states_inventory"
    /\ run.pc = "write"
    /\ Len(run.requests) = 3
    /\ run.responses = <<"received", "decoded", "decoded">>

(* C8: the state scraper's inventory is empty at every point, whatever the
   responses held, and a successful states_inventory writes the empty JSON
   object {} to the outfile. *)
C8_StateInventoryEmpty ==
    run.command = "states_inventory" =>
        /\ run.inv = EmptyMap
        /\ run.exit = "ok" => run.fs.outfile = Some(<<"{", "}">>)

\* states_inventory succeeded after a response that held a state product
C8_Witness ==
    /\ run.command = "states_inventory"
    /\ run.exit = "ok"
    /\ \E i \in 1..Len(run.stderr) : run.stderr[i].effective.state # None

(* C9: in states_inventory and counties_inventory the outfile and its parent
   directory exist, and the outfile is empty, from before the first request
   until the inventory is written; so whenever scraping fails the outfile
   exists and is empty, whatever was stored there before. *)
C9_OutfileTruncatedFirst ==
    run.command \in InventoryCommands =>
        /\ run.requests # <<>> => run.fs.dir /\ run.fs.outfile # None
        /\ (run.pc \in {"client", "session", "loop", "get", "text", "rows", "write"}
               \/ run.exit = "panic")
             => run.fs.dir /\ run.fs.outfile = Some(<<>>)

\* scraping failed after a request was sent
C9_Witness ==
    /\ run.command = "counties_inventory"
    /\ run.exit = "panic"
    /\ run.requests # <<>>
    /\ run.fs.outfile = Some(<<>>)

\* what one iteration over a row may do, by the row's first link alone
RowOutcome ==
    LET row == run.page[run.tr]
        href == FirstHref(row)
        next == [run EXCEPT !.tr = @ + 1]
    IN  IF row # <<>> /\ href = None
        THEN run' = [run EXCEPT !.pc = "done", !.exit = "panic"]
        ELSE IF row = <<>> \/ MatchStarts(href[1]) = {}
        THEN run' = next
        ELSE \E k \in DOMAIN run'.inv :
                 /\ DOMAIN run'.inv = DOMAIN run.inv \cup {k}
                 /\ \A x \in DOMAIN run.inv \ {k} : run'.inv[x] = run.inv[x]
                 /\ run'.inv[k].effective_file_url = UrlBase \o href[1]
                 /\ run' = [next EXCEPT !.inv = run'.inv]

(* C10: the county scraper looks at the first link of a row only.  A row with
   no link, or whose first link's href does not match, leaves the inventory
   as it is and the loop goes on with the next row; a row whose first link's
   href matches inserts or overwrites exactly one entry; a row whose first
   link has no href ends the run in a panic, no inventory returned. *)
C10_RowOutcomes ==
    [][(run.pc = "rows" /\ run.tr <= Len(run.page)) => RowOutcome]_vars

\* a row whose second link matches and whose first does not was passed over
C10_Witness ==
    /\ run.pc = "rows"
    /\ run.tr = 2
    /\ run.page[1] = <<Some(HrefStatewide), Some(HrefAutauga)>>
    /\ run.inv = EmptyMap

=============================================================================
